---- MODULE Spec2Model ----
(***************************************************************************)
(* inkscribe-art: the capture pipeline of the animated-text tool.          *)
(*                                                                         *)
(* The model covers the page component (Index: Generate / Reset / input    *)
(* edits, the reveal interval and the delayed stop timer), the recorder    *)
(* hook useAnimationRecorder in its three source variants, the browser's   *)
(* MediaRecorder as seen through the handlers the hook installs, and the   *)
(* sampling timers the hook creates.                                       *)
(*                                                                         *)
(* One action is one browser task: an event handler, a timer callback or   *)
(* a promise continuation, together with the React render and the effect   *)
(* run that follow it.  Values captured by closures (the isRecording a     *)
(* timer callback saw when it was created) are part of the state.          *)
(***************************************************************************)
EXTENDS Integers, Sequences, FiniteSets, TLC

VARIABLES
    recorderKind,     \* which source variant of useAnimationRecorder is built
    text,             \* Index: text
    displayText,      \* Index: displayText
    animationStyle,   \* Index: animationStyle
    speed,            \* Index: speed[0]
    isAnimating,      \* Index: isAnimating
    showCursor,       \* Index: showCursor
    canDownload,      \* Index: canDownload
    videoBlob,        \* Index: videoBlob
    interval,         \* the reveal interval of the current effect run
    timeouts,         \* pending delayed-stop timers, by captured isRecording
    isRecording,      \* hook: isRecording (React state)
    mediaRecorderRef, \* hook: mediaRecorderRef.current (0 is null)
    chunksRef,        \* hook: chunksRef.current
    frameIntervals,   \* sampling timers (setInterval) still active, by session
    enc,              \* the MediaRecorder each start constructed
    starts,           \* per startRecording call: how it ended
    nextSession,      \* number of the next startRecording call
    payloads,         \* blobs that stopRecording promises resolved with
    stopsPending,     \* stopRecording promises not yet resolved
    staleFrame,       \* timers whose latest sampling tick failed
    tm,               \* the reveal/stop timeline of one run (timing model)
    rv,               \* one reveal of the static/animated driver variant
    redraws,          \* snapshot recorder: captureFrame calls still awaiting
    isConverting,     \* useMp4Converter: isConverting
    progress,         \* useMp4Converter: progress (percent)
    ffmpegRef,        \* useMp4Converter: ffmpegRef.current (0 is null)
    engines,          \* FFmpeg instances constructed so far, by state
    fs,               \* each FFmpeg instance's virtual file system
    conv,             \* per convertWebMToMp4 call: where it is
    nextJob,          \* number of the next convertWebMToMp4 call
    saved             \* files handed to downloadRecording, in order

vars == <<recorderKind, text, displayText, animationStyle, speed, isAnimating,
          showCursor, canDownload, videoBlob, interval, timeouts, isRecording,
          mediaRecorderRef, chunksRef, frameIntervals, enc, starts,
          nextSession, payloads, stopsPending, staleFrame, tm, rv, redraws,
          isConverting, progress, ffmpegRef, engines, fs, conv, nextJob,
          saved>>

driverVars == <<text, displayText, animationStyle, speed, isAnimating,
                showCursor, canDownload, videoBlob, interval, timeouts>>

recorderVars == <<isRecording, mediaRecorderRef, chunksRef, frameIntervals,
                  enc, starts, nextSession, payloads, stopsPending>>

convVars == <<isConverting, progress, ffmpegRef, engines, fs, conv, nextJob,
              saved>>

----------------------------------------------------------------------------
(* Bounds of the model. *)

MaxSessions == 2

MaxTimeouts == 2

MaxRedraws == 2

MaxJobs == 3

Jobs == 1..MaxJobs

Sessions == 1..MaxSessions

(* The recorder hook's three variants in the source. *)
RecorderKinds == {"manual", "background", "snapshot"}

Texts == {<<>>, <<"a", "b">>}

(* The reveal effect reads animationStyle only to tell typewriter from the  *)
(* rest; "flowwrite" stands for the three styles it does not tell apart.   *)
Styles == {"typewriter", "flowwrite"}

SliderMin == 50

SliderMax == 300

InitialSpeed == 100

Speeds == {InitialSpeed, SliderMax}

----------------------------------------------------------------------------
(* Values. *)

(* Media types: new MediaRecorder(stream, {mimeType}), the type given to   *)
(* the payload's Blob, and the type given to the converted Blob.           *)
RecorderMimeType == [container |-> "video/webm", codecs |-> "vp9"]

PayloadType == [container |-> "video/webm", codecs |-> "none"]

Mp4Type == [container |-> "video/mp4", codecs |-> "none"]

NullBlob == [isNull |-> TRUE, chunks |-> <<>>]

Blob(cs) == [isNull |-> FALSE, chunks |-> cs, type |-> PayloadType]

IntervalOff == [on |-> FALSE, idx |-> 0, rec |-> FALSE]

NoEncoder == [state |-> "none", onstop |-> <<>>, data |-> <<>>, stops |-> <<>>]

NotStarted == [result |-> "none", calledRec |-> FALSE]

NoFile == [exists |-> FALSE]

EmptyFs == [input |-> NoFile, output |-> NoFile]

NoJob == [phase |-> "none", src |-> NullBlob, engine |-> 0, ret |-> "none",
          result |-> "none", progressed |-> FALSE]

TmIdle == [phase |-> "off", driver |-> "plain", style |-> "typewriter",
           len |-> 0, spaces |-> 0, speed |-> 0, now |-> 0, shown |-> 0,
           lastShownAt |-> 0, lastCharDone |-> 0, stopAt |-> 0]

RvIdle == [phase |-> "off", input |-> <<>>, staticText |-> <<>>,
           animatedText |-> <<>>, displayText |-> <<>>, currentIndex |-> 0]

(* The recorder hook's state, passed through the operators below. *)
RecState == [isRecording |-> isRecording, ref |-> mediaRecorderRef,
             chunks |-> chunksRef, timers |-> frameIntervals,
             enc |-> enc, starts |-> starts, waiting |-> stopsPending]

----------------------------------------------------------------------------
(* useEffect of Index: the reveal interval.                                *)
(* Runs after a render in which one of its dependencies changed.  The      *)
(* cleanup of the previous run clears its interval; the new run returns    *)
(* early, or clears displayText and starts a fresh interval whose          *)
(* callbacks capture this render's isRecording and stopRecording.          *)

EffectRunKeepsDisplay(changed, an, tx, rec, dt, sc, iv) ==
    IF ~changed
    THEN [interval |-> iv, displayText |-> dt, showCursor |-> sc]
    ELSE IF ~an \/ tx = <<>>
    THEN [interval |-> IntervalOff, displayText |-> dt, showCursor |-> sc]
    ELSE [interval |-> [on |-> TRUE, idx |-> 0, rec |-> rec],
          displayText |-> dt, showCursor |-> FALSE]

EffectRun(changed, an, tx, rec, dt, sc, iv) ==
    IF ~changed
    THEN [interval |-> iv, displayText |-> dt, showCursor |-> sc]
    ELSE IF ~an \/ tx = <<>>
    THEN [interval |-> IntervalOff, displayText |-> dt, showCursor |-> sc]
    ELSE [interval |-> [on |-> TRUE, idx |-> 0, rec |-> rec],
          displayText |-> <<>>, showCursor |-> FALSE]

Deps(an, tx, sp, st, rec) == <<an, tx, sp, st, rec>>

(* Commit a render: the handler left the driver state as given, and the    *)
(* effect runs if a dependency differs from the previous render's.         *)
Render(an, tx, sp, st, rec, dt, sc) ==
    LET eff == EffectRun(Deps(an, tx, sp, st, rec) #
                           Deps(isAnimating, text, speed, animationStyle,
                                isRecording),
                         an, tx, rec, dt, sc, interval)
    IN  /\ isAnimating' = an
        /\ text' = tx
        /\ speed' = sp
        /\ animationStyle' = st
        /\ interval' = eff.interval
        /\ displayText' = eff.displayText
        /\ showCursor' = eff.showCursor

----------------------------------------------------------------------------
(* startRecording.                                                         *)

(* The catch block: console.error; the snapshot variant also calls         *)
(* setIsRecording(false) and shows a toast.                                *)
StartCatch(kind, rs, s, why) ==
    [rs EXCEPT !.isRecording = IF kind = "snapshot" THEN FALSE ELSE @,
               !.starts[s].result = why]

(* What the caller of startRecording gets.  Every throw inside the body is *)
(* caught by its try/catch and "if (!ctx) return" returns normally, so the *)
(* promise of the async function is fulfilled however the body ended.      *)
StartPromise(result) ==
    CASE result = "none"    -> "none"
      [] result = "pending" -> "pending"
      [] OTHER              -> "fulfilled"

(* Where a failed start shows up. *)
StartReport(kind, result) ==
    IF result \in {"styleFailed", "encoderFailed"}
       \/ (result = "noContext" /\ kind = "snapshot")
    THEN IF kind = "snapshot" THEN "toast" ELSE "console"
    ELSE "nothing"

(* From setInterval to the end of the try block. *)
StartSetup(kind, rs, s, outcome) ==
    LET timed == [rs EXCEPT !.timers = @ \cup {s}]
    IN  IF outcome = "encoderFailed"
        THEN StartCatch(kind, timed, s, "encoderFailed")
        ELSE [timed EXCEPT
                !.chunks = <<>>,
                !.enc[s] = [state |-> "recording", onstop |-> <<"clear">>,
                            data |-> <<>>, stops |-> <<>>],
                !.ref = s,
                !.isRecording = TRUE,
                !.starts[s].result = "started"]

(* The part of startRecording that runs inside the caller's task: up to    *)
(* the first await (background: the image load; snapshot: the first        *)
(* captureFrame), or the whole body (manual).                              *)
StartCall(kind, rs, s, outcome) ==
    LET called == [rs EXCEPT !.starts[s].calledRec = rs.isRecording]
    IN  IF outcome = "noContext"
        THEN IF kind = "snapshot"
             THEN StartCatch(kind, called, s, "noContext")
             ELSE [called EXCEPT !.starts[s].result = "noContext"]
        ELSE IF kind = "manual"
        THEN StartSetup(kind, called, s, outcome)
        ELSE [called EXCEPT !.starts[s].result = "pending"]

(* The continuation after the await. *)
StartResume(kind, rs, s, outcome) ==
    IF outcome = "styleFailed"
    THEN StartCatch(kind, rs, s, "styleFailed")
    ELSE StartSetup(kind, rs, s, outcome)

CallOutcomes(kind) ==
    IF kind = "manual" THEN {"ok", "noContext", "encoderFailed"}
    ELSE {"ok", "noContext"}

ResumeOutcomes == {"ok", "styleFailed", "encoderFailed"}

----------------------------------------------------------------------------
(* stopRecording, called from a closure that captured isRecording = c.     *)

(* mediaRecorderRef.current.onstop = handler: the assignment replaces the  *)
(* handler startRecording installed, and any earlier stopRecording's.      *)
AddOnstopListener(hs) == Append(hs, "resolve")

AssignOnstop(hs) == <<"resolve">>

(* MediaRecorder.stop(): a recording encoder stops gathering and queues    *)
(* the task that fires dataavailable and stop ("stopping" until that task  *)
(* runs); on an inactive one the call does nothing.                        *)
MediaRecorderStop(st) == IF st = "recording" THEN "stopping" ELSE st

StopReturnsNull(rs, c) == rs.ref = 0 \/ ~c

(* rs.waiting counts the promises stopRecording returned that are not yet  *)
(* resolved; stops logs the encoder's state at each stop() call.           *)
StopRecording(rs, c) ==
    IF StopReturnsNull(rs, c)
    THEN rs
    ELSE [rs EXCEPT
            !.waiting = @ + 1,
            !.enc[rs.ref].onstop = AssignOnstop(@),
            !.enc[rs.ref].stops = Append(@, rs.enc[rs.ref].state),
            !.enc[rs.ref].state = MediaRecorderStop(@)]

----------------------------------------------------------------------------
(* The encoder's events.  start() is called without a timeslice, so the    *)
(* encoder hands over what it gathered once, in the task stop() queued:    *)
(* dataavailable, then stop.  A chunk is <<session, size>>.                *)

DataSizes == {0, 1}

(* ondataavailable, pushing chunks of any size. *)
PushEveryChunk(chunks, s, size) == Append(chunks, <<s, size>>)

(* ondataavailable. *)
OnDataAvailable(chunks, s, size) ==
    IF size > 0 THEN Append(chunks, <<s, size>>) ELSE chunks

(* The onstop handlers run in order.  w carries the state they touch and   *)
(* the blobs they resolve their promises with.                             *)

(* chunksRef.current = [] once the Blob is built. *)
KeepChunks(chunks) == chunks

ResetChunks(chunks) == <<>>

OnstopHandler(h, w, s) ==
    IF h = "clear"
    THEN [w EXCEPT !.timers = @ \ {s}]
    ELSE [w EXCEPT !.delivered = Append(@, Blob(w.chunks)),
                   !.chunks = ResetChunks(@),
                   !.isRecording = FALSE,
                   !.timers = @ \ {w.ref}]

RECURSIVE RunOnstop(_, _, _)
RunOnstop(hs, w, s) ==
    IF hs = <<>> THEN w
    ELSE RunOnstop(Tail(hs), OnstopHandler(Head(hs), w, s), s)

----------------------------------------------------------------------------
(* A sampling tick that throws (or, in the snapshot variant, rejects): the *)
(* error ends in the timer task; the interval is not cleared.              *)
TickFailureClearsTimer(fi, s) == fi \ {s}

TickFailure(fi, s) == fi


----------------------------------------------------------------------------
(* The timeline of one reveal and its delayed stop, in milliseconds from   *)
(* the moment the effect created the interval.  Timers fire at their       *)
(* nominal times.  The text has tm.len characters, tm.spaces of them       *)
(* spaces, and ends in a visible character.                                *)
(* driver "plain" is src/pages/Index.tsx, "minDuration" the variant with   *)
(* MIN_VIDEO_DURATION; for the latter the text has at most six words, so   *)
(* that getTextParts leaves all of it animated.                            *)

MaxRevealLen == 40

MaxSpaces == 1

SliderStep == 10

MIN_VIDEO_DURATION == 10000

FlowWriteDurationMs == 600

FluidDelayMs == 50

FluidDurationMs == 500

Drivers == {"plain", "minDuration"}

AllStyles == {"typewriter", "shimmer", "fluid", "flowwrite"}

SliderValues == {v \in SliderMin..SliderMax : (v - SliderMin) % SliderStep = 0}

Max(a, b) == IF a >= b THEN a ELSE b

(* calculateAnimationDuration, in ms.  speed is a multiple of 10, so the   *)
(* plain driver's baseDelay / 10 is exact. *)
CalculateAnimationDuration(driver, style, len, sp) ==
    IF driver = "plain"
    THEN CASE style = "flowwrite" -> len * (sp \div 10) + 500
           [] style = "fluid"     -> len * 50 + 500
           [] style = "shimmer"   -> len * sp + 2000
           [] OTHER               -> len * sp
    ELSE Max(CASE style = "flowwrite" -> len * (sp + 600) + 1000
               [] style = "fluid"     -> len * (50 + 500) + 1000
               [] style = "shimmer"   -> len * sp + 3000
               [] OTHER               -> len * sp + 500,
             MIN_VIDEO_DURATION)

(* The delay given to setTimeout when the reveal ends. *)
ExtraTimeNoMargin(driver, style, len, sp) ==
    Max(CalculateAnimationDuration(driver, style, len, sp) - len * sp, 0)

ExtraTime(driver, style, len, sp) ==
    Max(CalculateAnimationDuration(driver, style, len, sp) - len * sp, 0)
      + (IF driver = "plain" THEN 1000 ELSE 0)

(* Index of the k-th character (1-based, not a space) among the characters *)
(* FlowWriteAnimation numbers: it counts the characters of the words only. *)
FlowCharIndex(k, spacesBefore) == k - 1 - spacesBefore

(* When the character mounted at time `now` as the k-th of the text has    *)
(* finished its own transition: its start delay plus its duration.         *)
CharRevealDone(style, k, spacesBefore, sp, now) ==
    CASE style = "flowwrite" ->
           now + FlowCharIndex(k, spacesBefore) * sp + FlowWriteDurationMs
      [] style = "fluid"     -> now + (k - 1) * FluidDelayMs + FluidDurationMs
      [] OTHER               -> now

TmInputs ==
    {r \in [phase : {"revealing"}, driver : Drivers, style : AllStyles,
            len : 1..MaxRevealLen, spaces : 0..MaxSpaces, speed : SliderValues,
            now : {0}, shown : {0}, lastShownAt : {0}, lastCharDone : {0},
            stopAt : {0}] :
        r.spaces < r.len}

(* A reveal tick: the next character is mounted.  The spaces are placed    *)
(* right before the last character. *)
TmRevealTick ==
    /\ tm.phase = "revealing"
    /\ tm.shown < tm.len
    /\ LET now == tm.now + tm.speed
           k   == tm.shown + 1
           isSpace == k < tm.len /\ k >= tm.len - tm.spaces
           before  == IF k = tm.len THEN tm.spaces ELSE 0
       IN  tm' = [tm EXCEPT
                    !.now = now,
                    !.shown = k,
                    !.lastShownAt = now,
                    !.lastCharDone =
                        IF isSpace THEN @
                        ELSE Max(@, CharRevealDone(tm.style, k, before,
                                                   tm.speed, now))]

(* The tick that finds the text complete schedules the delayed stop. *)
TmRevealEnd ==
    /\ tm.phase = "revealing"
    /\ tm.shown = tm.len
    /\ tm' = [tm EXCEPT
                !.now = @ + tm.speed,
                !.phase = "waiting",
                !.stopAt = tm.now + tm.speed
                             + ExtraTime(tm.driver, tm.style, tm.len,
                                         tm.speed)]

(* The delayed stop timer fires: stopRecording is called. *)
TmStop ==
    /\ tm.phase = "waiting"
    /\ tm' = [tm EXCEPT !.now = tm.stopAt, !.phase = "stopped"]

----------------------------------------------------------------------------
PageLoaded ==
    /\ text = <<>>
    /\ displayText = <<>>
    /\ animationStyle = "typewriter"
    /\ speed = InitialSpeed
    /\ isAnimating = FALSE
    /\ showCursor = FALSE
    /\ canDownload = FALSE
    /\ videoBlob = NullBlob
    /\ interval = IntervalOff
    /\ timeouts = [c \in BOOLEAN |-> 0]
    /\ isRecording = FALSE
    /\ mediaRecorderRef = 0
    /\ chunksRef = <<>>
    /\ frameIntervals = {}
    /\ enc = [s \in Sessions |-> NoEncoder]
    /\ starts = [s \in Sessions |-> NotStarted]
    /\ nextSession = 1
    /\ payloads = [s \in Sessions |-> <<>>]
    /\ stopsPending = 0
    /\ staleFrame = {}
    /\ redraws = [s \in Sessions |-> 0]
    /\ isConverting = FALSE
    /\ progress = 0
    /\ ffmpegRef = 0
    /\ engines = [e \in Jobs |-> "none"]
    /\ fs = [e \in Jobs |-> EmptyFs]
    /\ conv = [j \in Jobs |-> NoJob]
    /\ nextJob = 1
    /\ saved = <<>>

Init ==
    /\ recorderKind \in RecorderKinds
    /\ PageLoaded
    /\ tm = TmIdle
    /\ rv = RvIdle

(* Write a recorder state back. *)
Commit(rs) ==
    /\ isRecording' = rs.isRecording
    /\ mediaRecorderRef' = rs.ref
    /\ chunksRef' = rs.chunks
    /\ frameIntervals' = rs.timers
    /\ enc' = rs.enc
    /\ starts' = rs.starts
    /\ stopsPending' = rs.waiting

----------------------------------------------------------------------------
(* Index: the controls. *)

(* The Textarea's onChange. *)
SetText ==
    \E t \in Texts :
        /\ t # text
        /\ Render(isAnimating, t, speed, animationStyle, isRecording,
                  displayText, showCursor)
        /\ UNCHANGED <<recorderKind, canDownload, videoBlob, timeouts,
                       recorderVars, staleFrame, tm, rv,
                       redraws, convVars>>

(* The Slider's onValueChange. *)
SetSpeed ==
    \E sp \in Speeds :
        /\ sp # speed
        /\ Render(isAnimating, text, sp, animationStyle, isRecording,
                  displayText, showCursor)
        /\ UNCHANGED <<recorderKind, canDownload, videoBlob, timeouts,
                       recorderVars, staleFrame, tm, rv,
                       redraws, convVars>>

(* The animation-style Select's onValueChange. *)
SetAnimationStyle ==
    \E st \in Styles :
        /\ st # animationStyle
        /\ Render(isAnimating, text, speed, st, isRecording,
                  displayText, showCursor)
        /\ UNCHANGED <<recorderKind, canDownload, videoBlob, timeouts,
                       recorderVars, staleFrame, tm, rv,
                       redraws, convVars>>

(* handleGenerate, behind the Generate button's disabled condition. *)
HandleGenerate ==
    /\ text # <<>>
    /\ ~isAnimating
    /\ nextSession <= MaxSessions
    /\ \E outcome \in CallOutcomes(recorderKind) :
         LET rs == StartCall(recorderKind, RecState, nextSession, outcome)
         IN  /\ Commit(rs)
             /\ Render(TRUE, text, speed, animationStyle, rs.isRecording,
                       displayText, showCursor)
    /\ canDownload' = FALSE
    /\ nextSession' = nextSession + 1
    /\ UNCHANGED <<recorderKind, videoBlob, timeouts, payloads, staleFrame, tm, rv,
                       redraws, convVars>>

(* handleReset: setCanDownload(false) next to setVideoBlob(null). *)
ResetKeepsCanDownload(cd) == cd

ResetCanDownload(cd) == FALSE

(* handleReset, behind the Reset button's disabled condition. *)
HandleReset ==
    /\ displayText # <<>>
    /\ Render(FALSE, text, speed, animationStyle, isRecording, <<>>, FALSE)
    /\ canDownload' = ResetCanDownload(canDownload)
    /\ videoBlob' = NullBlob
    /\ UNCHANGED <<recorderKind, timeouts, recorderVars, staleFrame, tm, rv,
                       redraws, convVars>>

----------------------------------------------------------------------------
(* Index: the reveal interval's callback. *)

RevealTick ==
    /\ interval.on
    /\ interval.idx < Len(text)
    /\ displayText' = SubSeq(text, 1, interval.idx + 1)
    /\ interval' = [interval EXCEPT !.idx = @ + 1]
    /\ UNCHANGED <<recorderKind, text, animationStyle, speed, isAnimating,
                   showCursor, canDownload, videoBlob, timeouts,
                   recorderVars, staleFrame, tm, rv,
                       redraws, convVars>>

(* The tick after the last character: the interval is cleared, the reveal  *)
(* is over, and the delayed stop is scheduled with this closure's          *)
(* isRecording and stopRecording.                                          *)
RevealEnd ==
    /\ interval.on
    /\ interval.idx >= Len(text)
    /\ timeouts[TRUE] + timeouts[FALSE] < MaxTimeouts
    /\ timeouts' = [timeouts EXCEPT ![interval.rec] = @ + 1]
    /\ Render(FALSE, text, speed, animationStyle, isRecording, displayText,
              IF animationStyle = "typewriter" THEN TRUE ELSE showCursor)
    /\ UNCHANGED <<recorderKind, canDownload, videoBlob, recorderVars,
                   staleFrame, tm, rv,
                       redraws, convVars>>

(* The delayed stop timer fires: if (isRecording) await stopRecording().   *)
(* A null result ends the callback; a blob arrives with the encoder's stop *)
(* event (EncoderStop).                                                    *)
TimeoutFire ==
    \E c \in BOOLEAN :
        /\ timeouts[c] > 0
        /\ timeouts' = [timeouts EXCEPT ![c] = @ - 1]
        /\ Commit(IF c THEN StopRecording(RecState, c) ELSE RecState)
        /\ UNCHANGED <<recorderKind, text, displayText, animationStyle, speed,
                       isAnimating, showCursor, canDownload, videoBlob,
                       interval, nextSession, payloads, staleFrame, tm, rv,
                       redraws, convVars>>

----------------------------------------------------------------------------
(* The recorder hook's asynchronous steps and the browser's events. *)

(* startRecording resumes after its await (background, snapshot). *)
StartComplete ==
    \E s \in Sessions, outcome \in ResumeOutcomes :
        /\ starts[s].result = "pending"
        /\ LET rs == StartResume(recorderKind, RecState, s, outcome)
           IN  /\ Commit(rs)
               /\ Render(isAnimating, text, speed, animationStyle,
                         rs.isRecording, displayText, showCursor)
        /\ UNCHANGED <<recorderKind, canDownload, videoBlob, timeouts,
                       nextSession, payloads, staleFrame, tm, rv,
                       redraws, convVars>>

(* The task a stop() queued: dataavailable with the gathered data, the     *)
(* stop event, and the continuation of the delayed stop callback for every *)
(* promise the handlers resolved with a blob.                              *)
EncoderStop ==
    \E s \in Sessions, size \in DataSizes :
        /\ enc[s].state = "stopping"
        /\ LET w0 == [isRecording |-> isRecording, ref |-> mediaRecorderRef,
                      chunks |-> OnDataAvailable(chunksRef, s, size),
                      timers |-> frameIntervals, delivered |-> <<>>]
               w  == RunOnstop(enc[s].onstop, w0, s)
           IN  /\ isRecording' = w.isRecording
               /\ chunksRef' = w.chunks
               /\ frameIntervals' = w.timers
               /\ payloads' = [payloads EXCEPT ![s] = @ \o w.delivered]
               /\ stopsPending' = stopsPending - Len(w.delivered)
               /\ videoBlob' = IF w.delivered = <<>> THEN videoBlob
                               ELSE w.delivered[Len(w.delivered)]
               /\ canDownload' = IF w.delivered = <<>> THEN canDownload
                                 ELSE TRUE
               /\ Render(isAnimating, text, speed, animationStyle,
                         w.isRecording, displayText, showCursor)
        /\ enc' = [enc EXCEPT ![s].state = "inactive",
                              ![s].data = Append(@, size)]
        /\ UNCHANGED <<recorderKind, timeouts, mediaRecorderRef, starts,
                       nextSession, staleFrame, tm, rv,
                       redraws, convVars>>

(* A sampling tick of the manual and background recorders: setInterval     *)
(* calls the synchronous captureFrame, which draws before it returns.      *)
FrameTick ==
    \E s \in frameIntervals :
        /\ recorderKind # "snapshot"
        /\ staleFrame' = staleFrame \ {s}
        /\ UNCHANGED <<recorderKind, driverVars, recorderVars, tm, rv, redraws,
                       convVars>>

(* A sampling tick that fails. *)
FrameTickFails ==
    \E s \in frameIntervals :
        /\ recorderKind # "snapshot"
        /\ staleFrame' = staleFrame \cup {s}
        /\ frameIntervals' = TickFailure(frameIntervals, s)
        /\ UNCHANGED <<recorderKind, driverVars, isRecording,
                       mediaRecorderRef, chunksRef, enc, starts, nextSession,
                       payloads, stopsPending, tm, rv, redraws, convVars>>

(* A sampling tick of the snapshot recorder: setInterval calls the async   *)
(* captureFrame, which returns at "await html2canvas(...)" and draws in a  *)
(* later task.  The timer does not wait for it.                            *)
SnapshotTick ==
    \E s \in frameIntervals :
        /\ recorderKind = "snapshot"
        /\ redraws[s] < MaxRedraws
        /\ redraws' = [redraws EXCEPT ![s] = @ + 1]
        /\ UNCHANGED <<recorderKind, driverVars, recorderVars, staleFrame, tm, rv,
                       convVars>>

(* html2canvas resolves: clearRect and drawImage onto the canvas. *)
SnapshotDrawn ==
    \E s \in Sessions :
        /\ redraws[s] > 0
        /\ redraws' = [redraws EXCEPT ![s] = @ - 1]
        /\ staleFrame' = staleFrame \ {s}
        /\ UNCHANGED <<recorderKind, driverVars, recorderVars, tm, rv, convVars>>

(* html2canvas rejects, or the drawing throws. *)
SnapshotFails ==
    \E s \in Sessions :
        /\ redraws[s] > 0
        /\ redraws' = [redraws EXCEPT ![s] = @ - 1]
        /\ staleFrame' = staleFrame \cup {s}
        /\ frameIntervals' = TickFailure(frameIntervals, s)
        /\ UNCHANGED <<recorderKind, driverVars, isRecording,
                       mediaRecorderRef, chunksRef, enc, starts, nextSession,
                       payloads, stopsPending, tm, rv, convVars>>

----------------------------------------------------------------------------
Next ==
    \/ SetText
    \/ SetSpeed
    \/ SetAnimationStyle
    \/ HandleGenerate
    \/ HandleReset
    \/ RevealTick
    \/ RevealEnd
    \/ TimeoutFire
    \/ StartComplete
    \/ EncoderStop
    \/ FrameTick
    \/ FrameTickFails
    \/ SnapshotTick
    \/ SnapshotDrawn
    \/ SnapshotFails

Spec == Init /\ [][Next]_vars

(* Timers, promise continuations and encoder events that are due do run;   *)
(* nothing obliges the user to click or type.                              *)
Fairness ==
    /\ WF_vars(RevealTick)
    /\ WF_vars(RevealEnd)
    /\ WF_vars(TimeoutFire)
    /\ WF_vars(StartComplete)
    /\ WF_vars(EncoderStop)

FairSpec == Init /\ [][Next]_vars /\ Fairness

(* One reveal on the clock. *)
mainVarsNoRv == <<recorderKind, driverVars, recorderVars, staleFrame, redraws,
                  convVars>>

mainVars == <<mainVarsNoRv, rv>>

TimingInit ==
    /\ recorderKind = "manual"
    /\ PageLoaded
    /\ tm \in TmInputs
    /\ rv = RvIdle

TimingNext ==
    \/ TmRevealTick /\ UNCHANGED mainVars
    \/ TmRevealEnd /\ UNCHANGED mainVars
    \/ TmStop /\ UNCHANGED mainVars

TimingSpec == TimingInit /\ [][TimingNext]_vars

----------------------------------------------------------------------------
(* The driver variant with getTextParts: one reveal of an input.  A string *)
(* is a sequence of one-character strings.                                 *)

MaxWords == 7

MaxAnimatedLen == 11

Letters == <<"a", "b", "c", "d", "e", "f", "g">>

Separators == {<<" ">>, <<",">>, <<",", " ">>}

(* What the regular expression [\s,] matches, and what trim() removes. *)
IsSeparator(c) == c \in {" ", ","}

IsWhitespace(c) == c = " "

RECURSIVE TrimStart(_)
TrimStart(str) ==
    IF str # <<>> /\ IsWhitespace(Head(str)) THEN TrimStart(Tail(str))
    ELSE str

RECURSIVE TrimEnd(_)
TrimEnd(str) ==
    IF str # <<>> /\ IsWhitespace(str[Len(str)])
    THEN TrimEnd(SubSeq(str, 1, Len(str) - 1))
    ELSE str

Trim(str) == TrimEnd(TrimStart(str))

(* str.split(/[\s,]+/): the pieces between the runs of separators, the     *)
(* empty piece before a leading run and after a trailing run included.     *)
RECURSIVE SplitFrom(_, _, _, _)
SplitFrom(str, piece, pieces, inRun) ==
    IF str = <<>> THEN Append(pieces, piece)
    ELSE IF IsSeparator(Head(str))
    THEN IF inRun THEN SplitFrom(Tail(str), piece, pieces, TRUE)
         ELSE SplitFrom(Tail(str), <<>>, Append(pieces, piece), TRUE)
    ELSE SplitFrom(Tail(str), Append(piece, Head(str)), pieces, FALSE)

Split(str) == SplitFrom(str, <<>>, <<>>, FALSE)

(* words.join(" ") *)
RECURSIVE Join(_)
Join(words) ==
    IF words = <<>> THEN <<>>
    ELSE IF Len(words) = 1 THEN words[1]
    ELSE words[1] \o <<" ">> \o Join(Tail(words))

(* input.trim().split(/[\s,]+/).filter(Boolean) *)
WordsOf(input) == SelectSeq(Split(Trim(input)), LAMBDA w : w # <<>>)

GetTextParts(input) ==
    LET words == WordsOf(input)
    IN  IF Len(words) <= 6
        THEN [staticText |-> <<>>, animatedText |-> input]
        ELSE [staticText |-> Join(SubSeq(words, 1, Len(words) - 4)),
              animatedText |-> Join(SubSeq(words, Len(words) - 3,
                                           Len(words)))]

(* String(undefined), what prev + animatedText[i] appends when i is past   *)
(* the end.                                                                *)
Undefined == <<"u", "n", "d", "e", "f", "i", "n", "e", "d">>

CharAt(str, i) == IF i + 1 <= Len(str) THEN <<str[i + 1]>> ELSE Undefined

(* The inputs: n one-letter words joined by one separator, with or without *)
(* a leading and a trailing space.                                         *)
RECURSIVE JoinWith(_, _)
JoinWith(words, sep) ==
    IF words = <<>> THEN <<>>
    ELSE IF Len(words) = 1 THEN <<words[1]>>
    ELSE <<words[1]>> \o sep \o JoinWith(Tail(words), sep)

InputOf(n, sep, lead, trail) ==
    (IF lead THEN <<" ">> ELSE <<>>)
      \o JoinWith(SubSeq(Letters, 1, n), sep)
      \o (IF trail THEN <<" ">> ELSE <<>>)

Inputs ==
    {in \in {InputOf(n, sep, lead, trail) :
                n \in 1..MaxWords, sep \in Separators,
                lead \in BOOLEAN, trail \in BOOLEAN} :
        Len(GetTextParts(in).animatedText) <= MaxAnimatedLen}

(* The effect runs for an input: getTextParts, setDisplayText(""), then    *)
(* setDisplayText(staticText + " ") when there is a static part.           *)
SplitEffectRun ==
    /\ rv.phase = "generated"
    /\ LET parts == GetTextParts(rv.input)
       IN  rv' = [rv EXCEPT
                    !.phase = "revealing",
                    !.staticText = parts.staticText,
                    !.animatedText = parts.animatedText,
                    !.displayText =
                        IF parts.staticText # <<>>
                        THEN parts.staticText
                               \o (IF parts.animatedText # <<>>
                                   THEN <<" ">> ELSE <<>>)
                        ELSE <<>>,
                    !.currentIndex = 0]

(* A reveal tick: setDisplayText(prev => prev + animatedText[currentIndex])*)
(* and then currentIndex++.  React runs the updater either inside the      *)
(* setDisplayText call (eagerly, when the component has no update pending) *)
(* or later, while rendering, when currentIndex has been incremented.      *)
SplitRevealTick ==
    /\ rv.phase = "revealing"
    /\ rv.currentIndex < Len(rv.animatedText)
    /\ \E eager \in BOOLEAN :
         LET readAt == IF eager THEN rv.currentIndex ELSE rv.currentIndex + 1
         IN  rv' = [rv EXCEPT
                      !.displayText = @ \o CharAt(rv.animatedText, readAt),
                      !.currentIndex = @ + 1]

(* The tick that finds currentIndex = animatedText.length. *)
SplitRevealEnd ==
    /\ rv.phase = "revealing"
    /\ rv.currentIndex >= Len(rv.animatedText)
    /\ rv' = [rv EXCEPT !.phase = "done"]

SplitInit ==
    /\ recorderKind = "manual"
    /\ PageLoaded
    /\ tm = TmIdle
    /\ rv \in {[RvIdle EXCEPT !.phase = "generated", !.input = in] :
                 in \in Inputs}

SplitNext ==
    \/ SplitEffectRun /\ UNCHANGED <<mainVarsNoRv, tm>>
    \/ SplitRevealTick /\ UNCHANGED <<mainVarsNoRv, tm>>
    \/ SplitRevealEnd /\ UNCHANGED <<mainVarsNoRv, tm>>

SplitSpec == SplitInit /\ [][SplitNext]_vars

----------------------------------------------------------------------------
(* useMp4Converter and handleDownload.                                     *)
(* An FFmpeg instance is named by the job whose load() constructed it.     *)
(* The engine is the environment: load() resolves or rejects; exec()       *)
(* resolves with a return code (0, or not 0 for an error or a timeout) and *)
(* rejects only when the engine itself is unusable; progress events carry  *)
(* whatever fraction the engine computed.  Files stay in an instance's     *)
(* virtual file system until they are overwritten.                         *)

(* Engine progress signals, in thousandths. *)
ProgressSignals == {-500, 504, 1000, 1500}

(* Math.round(progress * 100) for a fraction of t thousandths. *)
PercentOf(t) == (t + 5) \div 10

(* load(): if (ffmpegRef.current) return ffmpegRef.current. *)
LoadNeverCached(ref) == FALSE

LoadCached(ref) == ref # 0

(* The Download button is rendered and enabled. *)
DownloadShown(cd, rec, ic) == cd /\ ~rec

DownloadEnabled(cd, rec, ic) == cd /\ ~rec /\ ~ic

BlobSize(b) == Len(b.chunks)

InputFile(src) == [exists |-> TRUE, bytes |-> src]

(* output.mp4 as job j's exec wrote it. *)
Transcode(src, j) == [exists |-> TRUE, of |-> src, by |-> j]

(* How one exec may end: nothing can be decoded from an empty input. *)
ExecOutcomes(src) ==
    IF BlobSize(src) = 0 THEN {"error"} ELSE {"ok", "error", "throw"}

InFlight == {j \in Jobs : conv[j].phase \in {"loading", "writing", "exec",
                                              "reading"}}

(* handleDownload's catch block: offer the captured clip as WebM. *)
NoFallback(j, src) == <<>>

Fallback(j, src) ==
    IF src.isNull THEN <<>>
    ELSE <<[job |-> j, ext |-> "webm", content |-> src, type |-> src.type]>>

(* finally { setIsConverting(false) } on the way out of convertWebMToMp4. *)
NoFinally(ic) == ic

Finally(ic) == FALSE

(* convertWebMToMp4 returns new Blob([ab], { type: "video/mp4" }) around   *)
(* the bytes read back: finally, then handleDownload hands the MP4 to      *)
(* downloadRecording.                                                      *)
ConvertReturns(j, mp4) ==
    /\ isConverting' = FALSE
    /\ conv' = [conv EXCEPT ![j].phase = "done", ![j].result = "fulfilled"]
    /\ saved' = Append(saved, [job |-> j, ext |-> "mp4", content |-> mp4,
                               type |-> Mp4Type])

(* convertWebMToMp4 throws: finally, then handleDownload's catch. *)
ConvertRejects(j, why) ==
    /\ isConverting' = Finally(isConverting)
    /\ conv' = [conv EXCEPT ![j].phase = "done", ![j].result = "rejected",
                            ![j].ret = why]
    /\ saved' = saved \o Fallback(j, conv[j].src)

(* handleDownload up to its await: convertWebMToMp4 sets the flags and     *)
(* calls load(), which returns the cached instance or constructs one and   *)
(* awaits its load.                                                        *)
HandleDownload ==
    /\ DownloadEnabled(canDownload, isRecording, isConverting)
    /\ ~videoBlob.isNull
    /\ nextJob <= MaxJobs
    /\ isConverting' = TRUE
    /\ progress' = 0
    /\ IF LoadCached(ffmpegRef)
       THEN /\ conv' = [conv EXCEPT ![nextJob] =
                          [phase |-> "writing", src |-> videoBlob,
                           engine |-> ffmpegRef, ret |-> "none",
                           result |-> "none", progressed |-> FALSE]]
            /\ UNCHANGED engines
       ELSE /\ conv' = [conv EXCEPT ![nextJob] =
                          [phase |-> "loading", src |-> videoBlob,
                           engine |-> nextJob, ret |-> "none",
                           result |-> "none", progressed |-> FALSE]]
            /\ engines' = [engines EXCEPT ![nextJob] = "constructed"]
    /\ nextJob' = nextJob + 1
    /\ UNCHANGED <<recorderKind, driverVars, recorderVars, staleFrame, tm, rv,
                   redraws, ffmpegRef, fs, saved>>

(* ffmpeg.load resolves: the instance is cached. *)
LoadDone ==
    \E j \in Jobs :
        /\ conv[j].phase = "loading"
        /\ engines' = [engines EXCEPT ![conv[j].engine] = "loaded"]
        /\ ffmpegRef' = conv[j].engine
        /\ conv' = [conv EXCEPT ![j].phase = "writing"]
        /\ UNCHANGED <<recorderKind, driverVars, recorderVars, staleFrame, tm, rv,
                       redraws, isConverting, progress, fs, nextJob, saved>>

(* ffmpegRef.current after load() threw: the assignment comes after the   *)
(* awaited ffmpeg.load, so it is not reached.                              *)
CachedBeforeLoad(ref, e) == e

RefAfterFailedLoad(ref, e) == ref

(* ffmpeg.load (or a toBlobURL fetch) rejects. *)
LoadFails ==
    \E j \in Jobs :
        /\ conv[j].phase = "loading"
        /\ engines' = [engines EXCEPT ![conv[j].engine] = "failed"]
        /\ ffmpegRef' = RefAfterFailedLoad(ffmpegRef, conv[j].engine)
        /\ ConvertRejects(j, "loadFailed")
        /\ UNCHANGED <<recorderKind, driverVars, recorderVars, staleFrame, tm, rv,
                       redraws, progress, fs, nextJob>>

(* writeFile("input.webm") resolves; exec is started. *)
WriteDone ==
    \E j \in Jobs :
        /\ conv[j].phase = "writing"
        /\ fs' = [fs EXCEPT ![conv[j].engine].input = InputFile(conv[j].src)]
        /\ conv' = [conv EXCEPT ![j].phase = "exec"]
        /\ UNCHANGED <<recorderKind, driverVars, recorderVars, staleFrame, tm, rv,
                       redraws, isConverting, progress, ffmpegRef, engines,
                       nextJob, saved>>

(* fetchFile(webmBlob) or writeFile rejects. *)
WriteFails ==
    \E j \in Jobs :
        /\ conv[j].phase = "writing"
        /\ ConvertRejects(j, "writeFailed")
        /\ UNCHANGED <<recorderKind, driverVars, recorderVars, staleFrame, tm, rv,
                       redraws, progress, ffmpegRef, engines, fs, nextJob>>

(* The "progress" listener load() registered.  conv[j].progressed notes    *)
(* that a value above 0 was reported during job j.                         *)
EngineProgress ==
    \E j \in Jobs, t \in ProgressSignals :
        /\ conv[j].phase = "exec"
        /\ progress' = PercentOf(t)
        /\ conv' = [conv EXCEPT ![j].progressed = @ \/ PercentOf(t) > 0]
        /\ UNCHANGED <<recorderKind, driverVars, recorderVars, staleFrame, tm, rv,
                       redraws, isConverting, ffmpegRef, engines, fs,
                       nextJob, saved>>

(* exec resolves; its return code is not looked at. *)
ExecDone ==
    \E j \in Jobs :
        /\ conv[j].phase = "exec"
        /\ \E ret \in ExecOutcomes(conv[j].src) \ {"throw"} :
             /\ conv' = [conv EXCEPT ![j].phase = "reading", ![j].ret = ret]
             /\ fs' = IF ret = "ok"
                      THEN [fs EXCEPT ![conv[j].engine].output =
                              Transcode(fs[conv[j].engine].input.bytes, j)]
                      ELSE fs
        /\ UNCHANGED <<recorderKind, driverVars, recorderVars, staleFrame, tm, rv,
                       redraws, isConverting, progress, ffmpegRef, engines,
                       nextJob, saved>>

(* exec rejects. *)
ExecThrows ==
    \E j \in Jobs :
        /\ conv[j].phase = "exec"
        /\ "throw" \in ExecOutcomes(conv[j].src)
        /\ ConvertRejects(j, "throw")
        /\ UNCHANGED <<recorderKind, driverVars, recorderVars, staleFrame, tm, rv,
                       redraws, progress, ffmpegRef, engines, fs, nextJob>>

(* readFile("output.mp4") resolves with the file's bytes, or rejects when  *)
(* there is no such file.                                                  *)
ReadDone ==
    \E j \in Jobs :
        /\ conv[j].phase = "reading"
        /\ IF fs[conv[j].engine].output.exists
           THEN ConvertReturns(j, fs[conv[j].engine].output)
           ELSE ConvertRejects(j, conv[j].ret)
        /\ UNCHANGED <<recorderKind, driverVars, recorderVars, staleFrame, tm, rv,
                       redraws, progress, ffmpegRef, engines, fs, nextJob>>

(* The page with the manual recorder and the converter.  The sampling      *)
(* ticks and the speed and style controls touch nothing the converter or   *)
(* the Download button reads.                                              *)
ConvertInit ==
    /\ recorderKind = "manual"
    /\ PageLoaded
    /\ tm = TmIdle
    /\ rv = RvIdle

ConvertNext ==
    \/ SetText
    \/ HandleGenerate
    \/ HandleReset
    \/ RevealTick
    \/ RevealEnd
    \/ TimeoutFire
    \/ EncoderStop
    \/ HandleDownload
    \/ LoadDone
    \/ LoadFails
    \/ WriteDone
    \/ WriteFails
    \/ EngineProgress
    \/ ExecDone
    \/ ExecThrows
    \/ ReadDone

ConvertSpec == ConvertInit /\ [][ConvertNext]_vars

----------------------------------------------------------------------------
(* Properties. *)

ActiveEncoders == {s \in Sessions : enc[s].state \in {"recording", "stopping"}}

NoSessionRecording == ~isRecording /\ ActiveEncoders = {}

(* The non-empty chunks encoder s has delivered, in the order delivered. *)
EmittedChunks(s) ==
    LET NonEmpty(size) == size > 0
        sizes == SelectSeq(enc[s].data, NonEmpty)
    IN  [k \in 1..Len(sizes) |-> <<s, sizes[k]>>]

(* C1: a startRecording call made while a session is Recording is rejected *)
(* (AlreadyRecordingError) and leaves the first session as it was: its     *)
(* encoder, its sampling timer, its chunks and isRecording are unchanged   *)
(* by the step in which that call (its body) runs.                         *)
C1_StartWhileRecordingRejected ==
    [][\A s \in Sessions :
          (/\ starts'[s].calledRec
           /\ starts[s].result \in {"none", "pending"}
           /\ starts'[s].result \notin {"none", "pending"})
          => /\ starts'[s].result = "rejected"
             /\ enc' = enc
             /\ frameIntervals' = frameIntervals
             /\ chunksRef' = chunksRef
             /\ mediaRecorderRef' = mediaRecorderRef
             /\ isRecording' = isRecording]_vars

(* C2: in every reachable state at most one sampling timer is active and   *)
(* at most one encoder is active.                                          *)
C2_AtMostOneSessionSampling ==
    /\ Cardinality(frameIntervals) <= 1
    /\ Cardinality(ActiveEncoders) <= 1

(* C3: under fair scheduling of timers, continuations and encoder events,  *)
(* every session that enters Recording eventually has its payload          *)
(* delivered (it is stopped and reaches Complete).                         *)
C3_EveryRecordingCompletes ==
    \A s \in Sessions :
        (enc[s].state = "recording") ~> (Len(payloads[s]) > 0)

(* C4: when the driver calls stop, the last character of the reveal has    *)
(* finished its transition (its start delay plus its duration).            *)
C4_StopAfterRevealFinished ==
    tm.phase = "stopped" => tm.stopAt >= tm.lastCharDone

C6_ExactlyOnePayload ==
    \A s \in Sessions :
        /\ Len(payloads[s]) <= 1
        /\ enc[s].state = "inactive" => Len(payloads[s]) = 1
        /\ \A i \in 1..Len(payloads[s]) : ~payloads[s][i].isNull

(* C6 witness: a session stopped twice, the second time while the first    *)
(* stop's event was still outstanding, has completed with one payload.     *)
C6_Witness ==
    \E s \in Sessions :
        /\ enc[s].state = "inactive"
        /\ Len(enc[s].stops) >= 2
        /\ enc[s].stops[2] = "stopping"
        /\ Len(payloads[s]) = 1

(* C7: a payload handed to the driver is never empty: a completed session  *)
(* has byte length > 0, and a download is only offered for such a clip.    *)
C7_CompletePayloadNonEmpty ==
    /\ \A s \in Sessions :
          \A i \in 1..Len(payloads[s]) : Len(payloads[s][i].chunks) > 0
    /\ canDownload => (~videoBlob.isNull /\ Len(videoBlob.chunks) > 0)

(* C8: a stop called while no session is Recording returns null at once    *)
(* (no promise is left waiting) and changes nothing in the recorder.       *)
C8_StopWhenIdleIsNoOp ==
    [][(timeouts'[TRUE] < timeouts[TRUE] /\ NoSessionRecording)
          => /\ stopsPending' = stopsPending
             /\ enc' = enc
             /\ isRecording' = isRecording
             /\ chunksRef' = chunksRef
             /\ mediaRecorderRef' = mediaRecorderRef]_vars

(* C9: a start that fails because the region's styling cannot be resolved  *)
(* reports the error to its caller (its promise is rejected), starts no    *)
(* sampling tick and constructs no encoder.                                *)
C9_StyleFailureReported ==
    \A s \in Sessions :
        starts[s].result = "styleFailed"
        => /\ StartPromise(starts[s].result) = "rejected"
           /\ s \notin frameIntervals
           /\ enc[s].state = "none"

(* C10: a sampling tick that fails changes nothing but the frame it was to *)
(* draw: the sampling timers, the session state, the encoders, the chunks, *)
(* the pending stop calls and the driver are as before, so later ticks and *)
(* a later stop go on as usual.                                            *)
C10_TickFailureAbsorbed ==
    [][(\E s \in Sessions : s \in staleFrame' /\ s \notin staleFrame)
          => /\ frameIntervals' = frameIntervals
             /\ isRecording' = isRecording
             /\ enc' = enc
             /\ chunksRef' = chunksRef
             /\ mediaRecorderRef' = mediaRecorderRef
             /\ starts' = starts
             /\ stopsPending' = stopsPending
             /\ payloads' = payloads
             /\ UNCHANGED driverVars]_vars

(* C10 witness: a session whose latest tick failed was stopped afterwards  *)
(* and delivered its payload.                                              *)
C10_Witness ==
    \E s \in Sessions :
        /\ s \in staleFrame
        /\ enc[s].state = "inactive"
        /\ Len(payloads[s]) = 1

(* C11: within a session at most one redraw is in progress at any time: a  *)
(* sampling tick never begins while the previous tick's redraw has not     *)
(* finished.                                                               *)
C11_TicksSequential ==
    \A s \in Sessions : redraws[s] <= 1

(* C12: in the step in which a stop's payload is delivered, every sampling *)
(* timer created so far is cancelled.                                      *)
C12_StopCancelsEveryTimer ==
    [][payloads' # payloads => frameIntervals' = {}]_vars

(* C13: isRecording is true exactly while some encoder is recording or     *)
(* finalizing, and a payload once delivered for a session is never altered *)
(* or followed by another for that session.                                *)
C13_StateFollowsSession ==
    [][/\ isRecording' = (ActiveEncoders' # {})
       /\ \A s \in Sessions :
             payloads[s] # <<>> => payloads'[s] = payloads[s]]_vars

(* The files handed to downloadRecording for job j. *)
SavedFor(j) == SelectSeq(saved, LAMBDA f : f.job = j)

C15_FailedTranscodeRejects ==
    \A j \in Jobs :
        (conv[j].phase = "done"
           /\ conv[j].ret \in {"loadFailed", "error", "throw"})
        => conv[j].result = "rejected"

(* C16: the bytes a convert returns were written by that call's own exec   *)
(* from that call's source clip.                                           *)
C16_ConvertIndependent ==
    \A i \in 1..Len(saved) :
        saved[i].ext = "mp4"
        => /\ saved[i].content.by = saved[i].job
           /\ saved[i].content.of = conv[saved[i].job].src

(* C17: at most one engine instance is ever loaded, the cached handle is   *)
(* that instance, and no convert after a successful load constructs one.   *)
C17_EngineLoadedOnce ==
    /\ Cardinality({e \in Jobs : engines[e] = "loaded"}) <= 1
    /\ ffmpegRef # 0 => engines[ffmpegRef] = "loaded"
    /\ \A e, j \in Jobs :
          (e < j /\ engines[e] = "loaded") => engines[j] = "none"

(* C17 witness: a convert has ended on an instance an earlier convert      *)
(* loaded, after a first load that failed.                                 *)
C17_Witness ==
    \E j \in Jobs :
        /\ conv[j].phase = "done"
        /\ conv[j].engine # 0
        /\ conv[j].engine # j
        /\ \E e \in Jobs : engines[e] = "failed"

(* C18: at most one convert is in flight. *)
C18_OneConvertInFlight ==
    Cardinality(InFlight) <= 1

(* C18 witness: a convert is in flight while a session started by a later  *)
(* Generate is recording, after an earlier convert has ended.              *)
C18_Witness ==
    /\ InFlight # {}
    /\ isRecording
    /\ \E j \in Jobs : conv[j].phase = "done"

(* C19: during one convert the progress shown lies in 0..100 and never     *)
(* decreases.                                                              *)
C19_ProgressMonotoneInRange ==
    [][(isConverting /\ isConverting' /\ progress' # progress)
          => (progress' \in 0..100 /\ progress' >= progress)]_vars

(* C20: a convert of a source clip of size 0 ends rejected. *)
C20_EmptyClipRejected ==
    \A j \in Jobs :
        (conv[j].phase = "done" /\ BlobSize(conv[j].src) = 0)
        => conv[j].result = "rejected"

(* C21: every payload a stop returned carries the media type the encoder   *)
(* was constructed with, and every convert that returned has handed over   *)
(* exactly one non-empty clip typed MP4 after at least one progress value  *)
(* above 0 was reported during it.                                         *)
C21_OutputsTagged ==
    /\ \A s \in Sessions :
          \A i \in 1..Len(payloads[s]) :
              payloads[s][i].type = RecorderMimeType
    /\ \A j \in Jobs :
          (conv[j].phase = "done" /\ conv[j].result = "fulfilled")
          => /\ Len(SavedFor(j)) = 1
             /\ SavedFor(j)[1].type = Mp4Type
             /\ BlobSize(SavedFor(j)[1].content.of) > 0
             /\ conv[j].progressed

(* C22: every stop call that is waiting for its result gets it. *)
C22_EveryStopReturns ==
    (stopsPending > 0) ~> (stopsPending = 0)

(* C23: every chunk in a payload delivered for a session was produced by   *)
(* that session's encoder.                                                 *)
C23_PayloadOnlyOwnChunks ==
    \A s \in Sessions :
        \A i \in 1..Len(payloads[s]) :
            \A k \in 1..Len(payloads[s][i].chunks) :
                payloads[s][i].chunks[k][1] = s

(* C23 witness: two sessions have each delivered a payload holding one     *)
(* chunk.                                                                  *)
C23_Witness ==
    \E s, t \in Sessions :
        /\ s < t
        /\ Len(enc[s].data) > 0
        /\ Len(payloads[s]) = 1 /\ Len(payloads[s][1].chunks) = 1
        /\ Len(payloads[t]) = 1 /\ Len(payloads[t][1].chunks) = 1

(* C24: when isRecording is false and no stop call is waiting, no sampling *)
(* timer is running.                                                       *)
C24_TimerOnlyWhileRecording ==
    (~isRecording /\ stopsPending = 0) => frameIntervals = {}

(* C25: a convert is started only while no encoder is recording or         *)
(* finalizing, and only on a payload that a stop has delivered.            *)
C25_ConvertOnlyAfterStop ==
    [][nextJob' # nextJob
          => /\ ActiveEncoders = {}
             /\ \E s \in Sessions :
                   \E i \in 1..Len(payloads[s]) :
                       payloads[s][i] = conv'[nextJob].src]_vars

(* C26: while the page is as Reset (or the page load) left it, nothing     *)
(* displayed and no reveal started by a later Generate, canDownload is     *)
(* false and videoBlob is null.                                            *)
C26_ResetHolds ==
    (displayText = <<>> /\ ~isAnimating)
    => (~canDownload /\ videoBlob.isNull)

(* C27: isConverting is true exactly while a convert is in flight. *)
C27_ConvertingIffInFlight ==
    isConverting = (InFlight # {})

(* C27 witness: a convert that ended by a thrown transcode or a failed     *)
(* write has left the flag false.                                          *)
C27_Witness ==
    /\ ~isConverting
    /\ \E j \in Jobs :
          /\ conv[j].phase = "done"
          /\ conv[j].ret \in {"throw", "writeFailed"}

(* C28: an instance whose load failed is never the cached one, every       *)
(* convert past its load runs on a loaded instance, and a convert started  *)
(* with nothing cached constructs and loads an instance of its own.        *)
C28_FailedLoadNotCached ==
    [][/\ \A e \in Jobs : engines'[e] = "failed" => ffmpegRef' # e
       /\ \A j \in Jobs :
             conv'[j].phase \in {"writing", "exec", "reading"}
             => engines'[conv'[j].engine] = "loaded"
       /\ (nextJob' # nextJob /\ ffmpegRef = 0)
          => /\ conv'[nextJob].phase = "loading"
             /\ conv'[nextJob].engine = nextJob
             /\ engines'[nextJob] = "constructed"]_vars

(* C28 witness: after a convert whose load failed, a later convert has     *)
(* loaded its own instance and returned.                                   *)
C28_Witness ==
    \E k, j \in Jobs :
        /\ k < j
        /\ conv[k].ret = "loadFailed"
        /\ conv[j].result = "fulfilled"
        /\ conv[j].engine = j
        /\ ffmpegRef = j

(* C29: with the minDuration driver the stop is called at least            *)
(* MIN_VIDEO_DURATION ms after the first character was revealed (and so    *)
(* after the reveal started), for every style, length and speed; with the  *)
(* plain driver it is called at least 1000 ms after the last character was *)
(* revealed.                                                               *)
C29_StopDelayLowerBounds ==
    tm.phase = "stopped"
    => /\ tm.driver = "minDuration"
          => tm.stopAt - tm.speed >= MIN_VIDEO_DURATION
       /\ tm.driver = "plain"
          => tm.stopAt - tm.lastShownAt >= 1000

(* C29 witness: the minDuration driver has called stop after a reveal that *)
(* by itself took longer than MIN_VIDEO_DURATION.                          *)
C29_Witness ==
    /\ tm.phase = "stopped"
    /\ tm.driver = "minDuration"
    /\ tm.lastShownAt > MIN_VIDEO_DURATION

(* The delayed stops scheduled and not yet fired. *)
PendingStops == timeouts[TRUE] + timeouts[FALSE]

(* A step in which a running reveal finds its text complete. *)
RevealEnds ==
    /\ interval.on
    /\ isAnimating /\ ~isAnimating'
    /\ displayText' # <<>>

C32_DownloadHasClip ==
    canDownload => ~videoBlob.isNull

(* C32 witness: after a second Generate, a clip is offered for download    *)
(* that is not the first payload some session delivered.                   *)
C32_Witness ==
    /\ canDownload
    /\ ~videoBlob.isNull
    /\ nextSession > 2
    /\ \E s \in Sessions : Len(payloads[s]) > 0 /\ payloads[s][1] # videoBlob

(* C33: progress is always an integer in 0..100; the step that starts a    *)
(* convert leaves it 0, and it is 0 as long as the convert has not reached *)
(* its transcode, where the engine's signals begin.                        *)
C33_ProgressInRangeAndReset ==
    [][/\ progress' \in 0..100
       /\ nextJob' # nextJob => progress' = 0
       /\ \A j \in Jobs :
             conv'[j].phase \in {"loading", "writing"} => progress' = 0]_vars

(* The text before the animated part: staticText and one space, or nothing *)
(* when staticText is empty.                                               *)
StaticPrefix ==
    IF rv.staticText # <<>> THEN rv.staticText \o <<" ">> ELSE <<>>

(* C31: in the static/animated driver, after k reveal ticks displayText is *)
(* staticText, one space when staticText is not empty, and the first k     *)
(* characters of animatedText, so that it ends as staticText, the space    *)
(* and all of animatedText; an input of at most six words has an empty     *)
(* staticText and is animated whole.                                       *)
C31_AnimatedTextAppendedInOrder ==
    rv.phase \in {"revealing", "done"}
    => /\ rv.displayText
            = StaticPrefix \o SubSeq(rv.animatedText, 1, rv.currentIndex)
       /\ rv.phase = "done"
          => rv.displayText = StaticPrefix \o rv.animatedText
       /\ Len(WordsOf(rv.input)) <= 6
          => (rv.staticText = <<>> /\ rv.animatedText = rv.input)

====
